---- MODULE Spec2Model ----
(***************************************************************************)
(* Model of bereal_exporter.py: the image exporter, the metadata fallback  *)
(* chain, the composite synthesizer, the per-record processors and the     *)
(* main run over the record categories.                                    *)
(*                                                                         *)
(* The output tree is a function from paths to files.  A path is the       *)
(* record [folder, stem, view, ext]; a file is the record                  *)
(* [fmt, kind, img, ov, tags, mtime].  The outcome of every call into      *)
(* ExifTool, Pillow's encoder or os.utime is an input of the action that   *)
(* makes the call.                                                         *)
(***************************************************************************)
EXTENDS Integers, Sequences, FiniteSets, TLC

VARIABLES
    fs,        \* the output tree
    pc,        \* where __main__ is
    todo,      \* the records submitted to the pool and not yet processed
    archive,   \* the input: the three record lists, the JSON files, the window
    tool,      \* how the external tools behave during this run
    run,       \* which run over the archive this is
    calls,     \* number of direct calls made (call-level specification)
    log,       \* history: the calls the last step made
    workers,   \* the source line each worker of the pool is at
    futures,   \* the futures that have completed and are not yet collected
    pbar,      \* the count of each category's progress bar
    conv,      \* the conversation group being exported and its chooser
    first,     \* history: the output tree when the previous run ended
    memfs,     \* history: the output tree when the posts stage began
    handled,   \* history: the records whose worker has finished in this run
    errors,    \* history: the records reported as failed in this run
    writers    \* history: which worker of the current pool wrote which path

vars == <<fs, log, pc, todo, archive, run, first, calls, tool, memfs, handled,
          workers, futures, pbar, conv, errors, writers>>

\* the state of the pool, and the state only a conversation export changes
poolVars == <<todo, workers, futures, pbar, errors, writers>>

----------------------------------------------------------------------------
(* Bounds of the model *)

\* number of direct calls explored by the call-level specification
MaxCalls == 1
\* number of whole runs over the same archive
MaxRuns == 2
\* the longest one round of the chooser's polling loop takes, in seconds
MaxLag == 2
\* number of image pairs one run presents to the resolver or to a chooser
MaxPairs == 2

(* Time: instants are integers counted in ticks of half a second; instant 0 *)
(* is 2023-06-15T00:00:00 *)
TicksPerSecond == 2
TicksPerHour == 3600 * TicksPerSecond
TicksPerDay == 24 * TicksPerHour

----------------------------------------------------------------------------
(* Output tree *)

EmptyTree == [p \in {} |-> 0]
NoTags == [k \in {} |-> 0]

Path(folder, stem, view, ext) ==
    [folder |-> folder, stem |-> stem, view |-> view, ext |-> ext]

\* os.path.exists / os.path.isfile on the output tree
Exists(tree, p) == p \in DOMAIN tree

\* writing a file creates it or replaces what was there
Put(tree, p, f) == [q \in (DOMAIN tree) \cup {p} |-> IF q = p THEN f ELSE tree[q]]

\* os.remove
Remove(tree, p) == [q \in (DOMAIN tree) \ {p} |-> tree[q]]

\* str.replace(a, b) on the extension of a path, str.endswith on it
ReplaceExt(p, a, b) == IF p.ext = a THEN [p EXCEPT !.ext = b] ELSE p
EndsWith(p, e) == p.ext = e

NoImg == [id |-> 0, place |-> "none"]

\* the element of a one-element set (used to name an intermediate result)
Only(S) == CHOOSE x \in S : TRUE

----------------------------------------------------------------------------
(* Time Resolver *)

NoLocation == [present |-> FALSE, latitude |-> 0, longitude |-> 0]
Location(lat, lon) == [present |-> TRUE, latitude |-> lat, longitude |-> lon]

\* TimezoneFinder.timezone_at on the coordinates the model uses:
\* a zone name, "" when no zone covers the point, "raise" when it throws
timezone_at(lat, lon) ==
    CASE lat > 90 \/ lat < -90        -> "raise"
      [] lat = 40 /\ lon = -74        -> "America/New_York"
      [] lat = 48 /\ lon = 2          -> "Europe/Paris"
      [] lat = -33 /\ lon = 151       -> "Australia/Sydney"
      [] OTHER                        -> ""

\* days from 1 January to the first day of month m, in a year of 365 days
DaysBeforeMonth(m) ==
    CASE m = 1 -> 0 [] m = 2 -> 31 [] m = 3 -> 59 [] m = 4 -> 90
      [] m = 5 -> 120 [] m = 6 -> 151 [] m = 7 -> 181 [] m = 8 -> 212
      [] m = 9 -> 243 [] m = 10 -> 273 [] m = 11 -> 304 [] m = 12 -> 334

\* dt(y, m, d, h): the instant of a wall-clock date of 2022, 2023 or January
\* and February 2024 (2022 and 2023 have 365 days)
Datetime(y, m, d, h) ==
    (((y - 2023) * 365 + DaysBeforeMonth(m) + (d - 1) - (DaysBeforeMonth(6) + 14)) * 24 + h)
        * TicksPerHour

\* offset of a zone from UTC, in hours, at a UTC instant of 2023 or of the
\* winter before or after it (pytz: daylight saving time of 2023)
UtcOffsetHours(zone, utc_dt) ==
    CASE zone = "America/New_York" ->
             IF Datetime(2023, 3, 12, 7) <= utc_dt /\ utc_dt < Datetime(2023, 11, 5, 6)
             THEN -4 ELSE -5
      [] zone = "Europe/Paris" ->
             IF Datetime(2023, 3, 26, 1) <= utc_dt /\ utc_dt < Datetime(2023, 10, 29, 1)
             THEN 2 ELSE 1
      [] zone = "Australia/Sydney" ->
             IF Datetime(2023, 4, 1, 16) <= utc_dt /\ utc_dt < Datetime(2023, 9, 30, 16)
             THEN 10 ELSE 11
      [] OTHER -> 0

\* a conversion that ignores the coordinates
convert_to_local_time_default_only(utc_dt, location) ==
    utc_dt + UtcOffsetHours("America/New_York", utc_dt) * TicksPerHour

\* a conversion that shifts by the zone's offset of mid-June, whatever the instant
convert_to_local_time_fixed_offset(utc_dt, location) ==
    LET looked == IF location.present
                  THEN timezone_at(location.latitude, location.longitude)
                  ELSE ""
        local_tz == IF looked \in {"", "raise"} THEN "America/New_York" ELSE looked
    IN utc_dt + UtcOffsetHours(local_tz, 0) * TicksPerHour

convert_to_local_time(utc_dt, location) ==
    LET looked == IF location.present
                  THEN timezone_at(location.latitude, location.longitude)
                  ELSE ""
        local_tz == IF looked \in {"", "raise"} THEN "America/New_York" ELSE looked
    IN utc_dt + UtcOffsetHours(local_tz, utc_dt) * TicksPerHour

\* strftime with a seconds-resolution format: the sub-second part is dropped
Strftime(t) == t \div TicksPerSecond

\* a timestamp string of the archive: its textual form and the instant it denotes
\* dt.fromtimestamp of a numeric string yields the machine's local wall time
MachineOffsetHours == -4

get_datetime_from_str(time) ==
    CASE time.form \in {"micros", "zeros", "seconds"} -> [ok |-> TRUE, dt |-> time.t]
      [] time.form = "epoch" -> [ok |-> TRUE, dt |-> time.t + MachineOffsetHours * TicksPerHour]
      [] OTHER -> [ok |-> FALSE, dt |-> 0]

\* the command line: --timespan as a pair of dates, or --year, or neither
NoArg == [given |-> FALSE]
Date(y, m, d) == [y |-> y, m |-> m, d |-> d]
TimespanArg(from, to) == [given |-> TRUE, from |-> from, to |-> to]
YearArg(y) == [given |-> TRUE, year |-> y]
Args(timespan, year) == [timespan |-> timespan, year |-> year]

\* dt.fromtimestamp(0) and dt.now(): an instant before and one after every
\* record of the archive
EpochStart == Datetime(2022, 1, 1, 0)
Now == Datetime(2024, 2, 1, 9)

\* --timespan wins over --year; a date is the midnight that begins the day
init_time_span(args) ==
    IF args.timespan.given
    THEN [start |-> Datetime(args.timespan.from.y, args.timespan.from.m,
                             args.timespan.from.d, 0),
          end |-> Datetime(args.timespan.to.y, args.timespan.to.m, args.timespan.to.d, 0)]
    ELSE IF args.year.given
    THEN [start |-> Datetime(args.year.year, 1, 1, 0),
          end |-> Datetime(args.year.year, 12, 31, 0)]
    ELSE [start |-> EpochStart, end |-> Now]

----------------------------------------------------------------------------
(* Metadata tags *)

DateTags(local_dt, names) == [k \in names |-> Strftime(local_dt)]

GpsTags(loc, withRef) ==
    IF ~loc.present THEN NoTags
    ELSE LET coords == [GPSLatitude |-> loc.latitude, GPSLongitude |-> loc.longitude]
             refs == [GPSLatitudeRef |-> IF loc.latitude >= 0 THEN "N" ELSE "S",
                      GPSLongitudeRef |-> IF loc.longitude >= 0 THEN "E" ELSE "W"]
         IN IF withRef THEN coords @@ refs ELSE coords

AllDates == {"DateTimeOriginal", "CreateDate", "ModifyDate"}

\* ExifTool writes the given tags into the file and keeps the others
SetTags(tree, p, tags) == [tree EXCEPT ![p].tags = tags @@ @]

----------------------------------------------------------------------------
(* Metadata fallback chain                                                 *)
(* An outcome oc tells which of the external calls of one chain succeed:   *)
(* full, minimal (the two tag writes), save (Pillow re-encoding as JPEG),  *)
(* jpegtag (the tag write on the JPEG), utime (os.utime).                  *)

Step(name, ok) == [step |-> name, ok |-> ok]

ChainResult(tree, trace, raised) == [fs |-> tree, trace |-> trace, raised |-> raised]

\* last resort: set the file's modification time; a failure is reported, not raised
step_utime_raises(tree, name, oc) ==
    IF oc.utime /\ Exists(tree, name)
    THEN ChainResult([tree EXCEPT ![name].mtime = TRUE], <<Step("utime", TRUE)>>, FALSE)
    ELSE ChainResult(tree, <<Step("utime", FALSE)>>, TRUE)

step_utime(tree, name, oc) ==
    IF oc.utime /\ Exists(tree, name)
    THEN ChainResult([tree EXCEPT ![name].mtime = TRUE], <<Step("utime", TRUE)>>, FALSE)
    ELSE ChainResult(tree, <<Step("utime", FALSE)>>, FALSE)

\* re-encode as JPEG under the .jpg name, tag the JPEG, remove the original
step_transcode(tree, name, jpeg_tags, oc) ==
    LET jpeg_name == ReplaceExt(name, "webp", "jpg")
        readable == Exists(tree, name) /\ tree[name].fmt # "corrupt"
        saved == Put(tree, jpeg_name,
                     [tree[name] EXCEPT !.fmt = "jpeg", !.kind = "transcoded",
                                        !.tags = NoTags, !.mtime = FALSE])
        next(t) == LET r == step_utime(t, name, oc)
                   IN ChainResult(r.fs, <<Step("transcode", FALSE)>> \o r.trace, r.raised)
    IN IF ~(readable /\ oc.save) THEN next(tree)
       ELSE IF ~oc.jpegtag THEN next(saved)
       ELSE ChainResult(Remove(SetTags(saved, jpeg_name, jpeg_tags), name),
                        <<Step("transcode", TRUE)>>, FALSE)

\* second attempt: the minimal tag set
step_minimal(tree, name, min_tags, jpeg_tags, oc) ==
    IF oc.minimal
    THEN ChainResult(SetTags(tree, name, min_tags), <<Step("minimal", TRUE)>>, FALSE)
    ELSE LET r == step_transcode(tree, name, jpeg_tags, oc)
         IN ChainResult(r.fs, <<Step("minimal", FALSE)>> \o r.trace, r.raised)

\* first attempt: the full tag set; on failure straight to transcoding
step_full_skips_minimal(tree, name, tags, min_tags, jpeg_tags, oc) ==
    IF oc.full
    THEN ChainResult(SetTags(tree, name, tags), <<Step("full", TRUE)>>, FALSE)
    ELSE LET r == step_transcode(tree, name, jpeg_tags, oc)
         IN ChainResult(r.fs, <<Step("full", FALSE)>> \o r.trace, r.raised)

\* first attempt: the full tag set
step_full(tree, name, tags, min_tags, jpeg_tags, oc) ==
    IF oc.full
    THEN ChainResult(SetTags(tree, name, tags), <<Step("full", TRUE)>>, FALSE)
    ELSE LET r == step_minimal(tree, name, min_tags, jpeg_tags, oc)
         IN ChainResult(r.fs, <<Step("full", FALSE)>> \o r.trace, r.raised)

----------------------------------------------------------------------------
(* Image Exporter *)

\* A source is [id, fmt, places]: the places of the archive where a file of
\* that name is, among the literal path and the fallback locations.
FallbackLocations == <<"rootrec", "post", "bereal", "realmoji", "rootrec">>

FirstFile(places, i) ==
    LET RECURSIVE first_(_)
        first_(k) == IF k > Len(FallbackLocations) THEN "none"
                     ELSE IF FallbackLocations[k] \in places THEN FallbackLocations[k]
                     ELSE first_(k + 1)
    IN first_(i)

\* a search that takes the last candidate that is a file
ResolveSource_last_match(src) ==
    IF "literal" \in src.places THEN "literal"
    ELSE IF "realmoji" \in src.places THEN "realmoji"
    ELSE FirstFile(src.places, 1)

\* the path export_img reads from, "none" when no candidate is a file
ResolveSource(src) ==
    IF "literal" \in src.places THEN "literal" ELSE FirstFile(src.places, 1)

SourceFile(src, place) ==
    [fmt |-> src.fmt, kind |-> "copy", img |-> [id |-> src.id, place |-> place],
     ov |-> NoImg, tags |-> NoTags, mtime |-> FALSE]

\* a correction that knows one direction only
CorrectExtension_webp_only(fmt, img_name) ==
    IF fmt = "webp" /\ EndsWith(img_name, "jpg") THEN ReplaceExt(img_name, "jpg", "webp")
    ELSE img_name

\* the extension is corrected when Pillow detects the other format
CorrectExtension(fmt, img_name) ==
    IF fmt = "jpeg" /\ EndsWith(img_name, "webp") THEN ReplaceExt(img_name, "webp", "jpg")
    ELSE IF fmt = "webp" /\ EndsWith(img_name, "jpg") THEN ReplaceExt(img_name, "jpg", "webp")
    ELSE img_name

ExportTags(img_name, local_dt, loc) ==
    IF EndsWith(img_name, "jpg") \/ EndsWith(img_name, "jpeg")
    THEN DateTags(local_dt, AllDates) @@ GpsTags(loc, TRUE)
    ELSE DateTags(local_dt, {"DateTimeOriginal"}) @@ GpsTags(loc, TRUE)

NoSource == [id |-> 0, fmt |-> "none", places |-> {}]

\* what one call did: its inputs, the tree before and after, the steps of the
\* metadata chain it attempted, and whether an exception left the call
CallResult(op, src, primary, secondary, dst, loc, oc, pre, chain) ==
    [op |-> op, src |-> src, primary |-> primary, secondary |-> secondary,
     dst |-> dst, loc |-> loc, oc |-> oc, pre |-> pre, post |-> chain.fs,
     trace |-> chain.trace, raised |-> chain.raised]

\* the path the call copied or saved its image to before tagging it
CopyTarget(c) ==
    IF c.op = "export_img" THEN CorrectExtension(c.src.fmt, c.dst) ELSE c.dst

\* no candidate is a file, and the destination is created all the same
export_not_found_creates(tree, src, img_name) ==
    ChainResult(Put(tree, img_name, SourceFile(src, "none")), <<>>, FALSE)

\* no candidate is a file: the miss is printed and the call returns
export_not_found(tree, src, img_name) ==
    ChainResult(tree, <<>>, FALSE)

export_img(tree, src, img_name_in, img_dt, loc, oc) ==
    LET place == ResolveSource(src)
    IN IF place = "none"
       THEN CallResult("export_img", src, img_name_in, img_name_in, img_name_in, loc, oc, tree,
                       export_not_found(tree, src, img_name_in))
       ELSE LET img_name == CorrectExtension(src.fmt, img_name_in)
                copiedTree == Put(tree, img_name, SourceFile(src, place))
                local_dt == convert_to_local_time(img_dt, loc)
                tags == ExportTags(img_name, local_dt, loc)
                min_tags == DateTags(local_dt, {"DateTimeOriginal"}) @@ GpsTags(loc, TRUE)
                jpeg_tags == DateTags(local_dt, AllDates) @@ GpsTags(loc, TRUE)
            IN CallResult("export_img", src, img_name_in, img_name_in, img_name_in, loc, oc, tree,
                          step_full(copiedTree, img_name, tags, min_tags, jpeg_tags, oc))

----------------------------------------------------------------------------
(* Composite Synthesizer *)

\* the composition proper: both images decode and every Pillow step succeeds
CompositionSucceeds(tree, primary_path, secondary_path, oc) ==
    /\ Exists(tree, primary_path) /\ tree[primary_path].fmt # "corrupt"
    /\ Exists(tree, secondary_path) /\ tree[secondary_path].fmt # "corrupt"
    /\ oc.compose

CompositeFile(tree, primary_path, secondary_path) ==
    [fmt |-> "webp", kind |-> "composite", img |-> tree[primary_path].img,
     ov |-> tree[secondary_path].img, tags |-> NoTags, mtime |-> FALSE]

\* the metadata chain of a composite: the minimal set carries no hemisphere tags
composite_chain(tree, output_path, img_dt, loc, oc) ==
    LET local_dt == convert_to_local_time(img_dt, loc)
        tags == DateTags(local_dt, AllDates) @@ GpsTags(loc, TRUE)
        min_tags == DateTags(local_dt, {"DateTimeOriginal"}) @@ GpsTags(loc, FALSE)
    IN step_full(tree, output_path, tags, min_tags, tags, oc)

\* a handler that reports the failure and leaves no file
composite_fallback_omits(tree, primary_path, output_path, img_dt, loc, oc) ==
    ChainResult(tree, <<>>, FALSE)

\* the handler of a failed composition: copy the background, then tag the copy;
\* cp raises out of the handler when the background is no file
composite_fallback(tree, primary_path, output_path, img_dt, loc, oc) ==
    IF ~Exists(tree, primary_path)
    THEN ChainResult(tree, <<>>, TRUE)
    ELSE composite_chain(Put(tree, output_path, tree[primary_path]),
                         output_path, img_dt, loc, oc)

create_composite_image(tree, primary_path, secondary_path, output_path, img_dt, loc, oc) ==
    CallResult("create_composite_image", NoSource, primary_path, secondary_path,
               output_path, loc, oc, tree,
               IF CompositionSucceeds(tree, primary_path, secondary_path, oc)
               THEN composite_chain(Put(tree, output_path,
                                        CompositeFile(tree, primary_path, secondary_path)),
                                    output_path, img_dt, loc, oc)
               ELSE composite_fallback(tree, primary_path, output_path, img_dt, loc, oc))

----------------------------------------------------------------------------
(* Pairing Resolver *)
(* The base name of an original file is the sequence of its words, which   *)
(* the file name joins with "-" and ends with ".webp": <<"1", "y">> is     *)
(* 1-y.webp.  An exported image is given by its path and by the width and *)
(* height Pillow reads from it (NoDims when it cannot be opened).          *)

\* str.lower on the words the model uses
Lower(word) ==
    CASE word \in {"Secondary", "SECONDARY"} -> "secondary"
      [] word = "Front" -> "front"
      [] word = "Back" -> "back"
      [] word = "X" -> "x"
      [] OTHER -> word

LowerName(name) == [k \in DOMAIN name |-> Lower(name[k])]

\* keyword in name, for a keyword that is one of the words
Contains(name, keyword) == \E k \in DOMAIN name : name[k] = keyword

\* the order of the lower-case words as strings
WordRank(word) ==
    CASE word = "1" -> 1 [] word = "2" -> 2 [] word = "back" -> 3 [] word = "front" -> 4
      [] word = "secondary" -> 5 [] word = "x" -> 6 [] word = "y" -> 7 [] OTHER -> 8

\* name1 < name2 as strings: at the first word that differs the smaller word
\* decides; where one name ends, its "." follows while the other continues
\* with "-", and "-" sorts before "."
StringLess(name1, name2) ==
    LET RECURSIVE less(_)
        less(k) ==
            IF k > Len(name1) /\ k > Len(name2) THEN FALSE
            ELSE IF k > Len(name1) THEN FALSE
            ELSE IF k > Len(name2) THEN TRUE
            ELSE IF name1[k] = name2[k] THEN less(k + 1)
            ELSE WordRank(name1[k]) < WordRank(name2[k])
    IN less(1)

NoDims == [w |-> 0, h |-> 0]
Dims(w, h) == [w |-> w, h |-> h]
Abs(x) == IF x < 0 THEN -x ELSE x

NoPath == Path("", 0, "", "")
Pair(primary, overlay) == [primary |-> primary, overlay |-> overlay]
\* the skip signal (None, None)
Skip == Pair(NoPath, NoPath)
NoMatch == [matched |-> FALSE, pair |-> Skip]
Match(primary, overlay) == [matched |-> TRUE, pair |-> Pair(primary, overlay)]

\* a rule that sees the keyword in the first name only
secondary_rule_first_only(file1_name, file2_name, exported_files) ==
    IF Contains(file1_name, "secondary") /\ ~Contains(file2_name, "secondary")
    THEN Match(exported_files[2], exported_files[1])
    ELSE NoMatch

\* pattern 1: "secondary" in exactly one of the two names
secondary_rule(file1_name, file2_name, exported_files) ==
    IF Contains(file1_name, "secondary") /\ ~Contains(file2_name, "secondary")
    THEN Match(exported_files[2], exported_files[1])
    ELSE IF Contains(file2_name, "secondary") /\ ~Contains(file1_name, "secondary")
    THEN Match(exported_files[1], exported_files[2])
    ELSE NoMatch

\* a rule that sees "front" in the first name and "back" in the second only
front_back_rule_first_only(file1_name, file2_name, exported_files) ==
    IF Contains(file1_name, "front") /\ Contains(file2_name, "back")
    THEN Match(exported_files[2], exported_files[1])
    ELSE NoMatch

\* pattern 2: "front" in one name and "back" in the other
front_back_rule(file1_name, file2_name, exported_files) ==
    IF Contains(file1_name, "front") /\ Contains(file2_name, "back")
    THEN Match(exported_files[2], exported_files[1])
    ELSE IF Contains(file1_name, "back") /\ Contains(file2_name, "front")
    THEN Match(exported_files[1], exported_files[2])
    ELSE NoMatch

\* sizes whose ratios are exactly 0.2 apart and whose double difference is
\* above 0.2: abs(0.9 - 0.7) is 0.20000000000000007
DiffRoundsAbove == {<<Dims(9, 10), Dims(7, 10)>>, <<Dims(7, 10), Dims(9, 10)>>}

\* abs(ratio1 - ratio2) > 0.2 on the doubles
RatiosDiffer(dims) ==
    \/ 5 * Abs(dims[1].w * dims[2].h - dims[2].w * dims[1].h) > dims[1].h * dims[2].h
    \/ dims \in DiffRoundsAbove

\* a rule that takes the smaller ratio for the overlay
ratio_rule_smaller_ratio(dims, exported_files) ==
    IF dims[1] = NoDims \/ dims[2] = NoDims THEN NoMatch
    ELSE IF RatiosDiffer(dims)
    THEN IF dims[1].w * dims[2].h < dims[2].w * dims[1].h
         THEN Match(exported_files[2], exported_files[1])
         ELSE Match(exported_files[1], exported_files[2])
    ELSE NoMatch

\* pattern 3: the width/height ratios differ by more than 0.2 and the ratio
\* nearer to 1 is the overlay; no match when an image cannot be opened
ratio_rule(dims, exported_files) ==
    IF dims[1] = NoDims \/ dims[2] = NoDims THEN NoMatch
    ELSE IF RatiosDiffer(dims)
    THEN IF Abs(dims[1].w - dims[1].h) * dims[2].h < Abs(dims[2].w - dims[2].h) * dims[1].h
         THEN Match(exported_files[2], exported_files[1])
         ELSE Match(exported_files[1], exported_files[2])
    ELSE NoMatch

\* pattern 4: the name that sorts first is the background
alphabetical_rule(file1_name, file2_name, exported_files) ==
    IF StringLess(file1_name, file2_name)
    THEN Pair(exported_files[1], exported_files[2])
    ELSE Pair(exported_files[2], exported_files[1])

detect_primary_overlay_conversation(original_files, exported_files, dims) ==
    IF Len(original_files) # 2 \/ Len(exported_files) # 2
    THEN Pair(exported_files[1], exported_files[2])
    ELSE LET file1_name == LowerName(original_files[1])
             file2_name == LowerName(original_files[2])
             rule1 == secondary_rule(file1_name, file2_name, exported_files)
             rule2 == front_back_rule(file1_name, file2_name, exported_files)
             rule3 == ratio_rule(dims, exported_files)
         IN IF rule1.matched THEN rule1.pair
            ELSE IF rule2.matched THEN rule2.pair
            ELSE IF rule3.matched THEN rule3.pair
            ELSE alphabetical_rule(file1_name, file2_name, exported_files)

----------------------------------------------------------------------------
(* Interactive choosers *)

\* the fixed timeout of the browser chooser, in seconds
timeout == 300
\* the clock of the model stops here
MaxClock == timeout + MaxLag

\* a loop that waits for an answer however long it takes
loop_continues_no_timeout(selection, elapsed) == selection = "none"

\* the condition of the polling loop
loop_continues(selection, elapsed) == selection = "none" /\ elapsed < timeout

\* the content of a result file as the loop reads it
Recognised(answer) == answer \in {"1", "2", "skip"}

\* choosers that return the images in the order presented for either answer
Chosen_same_order(selection, exported_files) ==
    CASE selection \in {"1", "2"} -> Pair(exported_files[1], exported_files[2])
      [] OTHER -> Skip

\* what the choosers return for a selection
Chosen(selection, exported_files) ==
    CASE selection = "1" -> Pair(exported_files[2], exported_files[1])
      [] selection = "2" -> Pair(exported_files[1], exported_files[2])
      [] OTHER -> Skip

----------------------------------------------------------------------------
(* Per-record processors *)

\* a window that leaves its last instant out
InTimeSpan_open_end(t, time_span) == time_span.start <= t /\ t < time_span.end

InTimeSpan(t, time_span) == time_span.start <= t /\ t <= time_span.end

PostsPath(base_filename, view) == Path("posts", base_filename, view, "webp")

Processed(tree, made, raised) == [fs |-> tree, calls |-> made, raised |-> raised]

\* a key the JSON record does not have: reading it raises KeyError
MissingKey == [id |-> -1, fmt |-> "none", places |-> {}]

\* One step of a worker: the tree it leaves, the calls it made, the source
\* line the worker is at next (Returned when the function has returned or an
\* exception has left it) and whether an exception left it.
Returned == 0
Stepped(tree, made, line, raised) ==
    [fs |-> tree, calls |-> made, line |-> line, raised |-> raised]
AfterCall(c, line) == Stepped(c.post, <<c>>, IF c.raised THEN Returned ELSE line, c.raised)

\* process_memory from the given source line to its next access to the
\* output tree
process_memory(tree, memory, time_span, oc, line) ==
    LET parsed == get_datetime_from_str(memory.takenTime)
        memory_dt == parsed.dt
        img_location == memory.location
        base_filename == Strftime(convert_to_local_time(memory_dt, img_location))
        secondary_output == PostsPath(base_filename, "selfie-view")
        primary_output == PostsPath(base_filename, "main-view")
        composite_output == PostsPath(base_filename, "composited")
    IN CASE line = 244 ->
              IF ~parsed.ok THEN Stepped(tree, <<>>, Returned, TRUE)
              ELSE IF ~InTimeSpan(memory_dt, time_span) THEN Stepped(tree, <<>>, Returned, FALSE)
              ELSE IF memory.frontImage = MissingKey \/ memory.backImage = MissingKey
              THEN Stepped(tree, <<>>, Returned, TRUE)
              ELSE IF /\ Exists(tree, primary_output)
                      /\ Exists(tree, secondary_output)
                      /\ Exists(tree, composite_output)
              THEN Stepped(tree, <<>>, Returned, FALSE)
              ELSE Stepped(tree, <<>>, 268, FALSE)
         [] line = 268 ->
              Stepped(tree, <<>>, IF ~Exists(tree, secondary_output) THEN 269 ELSE 270, FALSE)
         [] line = 269 ->
              AfterCall(export_img(tree, memory.frontImage, secondary_output,
                                   memory_dt, img_location, oc), 270)
         [] line = 270 ->
              Stepped(tree, <<>>, IF ~Exists(tree, primary_output) THEN 271 ELSE 274, FALSE)
         [] line = 271 ->
              AfterCall(export_img(tree, memory.backImage, primary_output,
                                   memory_dt, img_location, oc), 274)
         [] line = 274 ->
              Stepped(tree, <<>>,
                      IF /\ ~Exists(tree, composite_output)
                         /\ Exists(tree, secondary_output)
                         /\ Exists(tree, primary_output)
                      THEN 275 ELSE Returned, FALSE)
         [] line = 275 ->
              AfterCall(create_composite_image(tree, primary_output, secondary_output,
                                               composite_output, memory_dt, img_location, oc),
                        Returned)

\* process_post from the given source line to its next access to the output
\* tree
process_post(tree, post, time_span, oc, line) ==
    LET parsed == get_datetime_from_str(post.takenAt)
        post_dt == parsed.dt
        post_location == post.location
        base_filename == Strftime(convert_to_local_time(post_dt, post_location))
        primary_output == PostsPath(base_filename, "main-view")
        secondary_output == PostsPath(base_filename, "selfie-view")
        composite_output == PostsPath(base_filename, "composited")
    IN CASE line = 283 ->
              IF ~parsed.ok THEN Stepped(tree, <<>>, Returned, TRUE)
              ELSE IF ~InTimeSpan(post_dt, time_span) THEN Stepped(tree, <<>>, Returned, FALSE)
              ELSE IF post.primary = MissingKey \/ post.secondary = MissingKey
              THEN Stepped(tree, <<>>, Returned, TRUE)
              ELSE Stepped(tree, <<>>, 305, FALSE)
         [] line = 305 ->
              AfterCall(export_img(tree, post.primary, primary_output,
                                   post_dt, post_location, oc), 308)
         [] line = 308 ->
              AfterCall(export_img(tree, post.secondary, secondary_output,
                                   post_dt, post_location, oc), 311)
         [] line = 311 ->
              Stepped(tree, <<>>,
                      IF Exists(tree, primary_output) /\ Exists(tree, secondary_output)
                      THEN 312 ELSE Returned, FALSE)
         [] line = 312 ->
              AfterCall(create_composite_image(tree, primary_output, secondary_output,
                                               composite_output, post_dt, post_location, oc),
                        Returned)

----------------------------------------------------------------------------
(* Category exporters *)

\* the filter loop parses every record's timestamp before any is processed
AllParse(stamps) ==
    \A i \in 1..Len(stamps) : get_datetime_from_str(stamps[i]).ok

ValidIndices(stamps, time_span) ==
    {i \in 1..Len(stamps) : InTimeSpan(get_datetime_from_str(stamps[i]).dt, time_span)}

\* the timestamp field each category's filter reads
MemoryStamps(memories) == [i \in 1..Len(memories) |-> memories[i].takenTime]
PostStamps(posts) == [i \in 1..Len(posts) |-> posts[i].takenAt]
RealmojiStamps(realmojis) == [i \in 1..Len(realmojis) |-> realmojis[i].postedAt]

\* the sequential loop of export_realmojis over the records in the window
export_realmojis(tree, realmojis, time_span, oc) ==
    LET RECURSIVE loop(_, _, _)
        loop(i, t, made) ==
            IF i > Len(realmojis) THEN Processed(t, made, FALSE)
            ELSE LET realmoji_dt == get_datetime_from_str(realmojis[i].postedAt).dt
                     local_dt == convert_to_local_time(realmoji_dt, NoLocation)
                     img_name == Path("realmojis", Strftime(local_dt), "", "webp")
                 IN IF InTimeSpan(realmoji_dt, time_span)
                    THEN Only({ loop(i + 1, c.post, Append(made, c)) :
                                c \in { export_img(t, realmojis[i].media, img_name,
                                                   realmoji_dt, NoLocation, oc) } })
                    ELSE loop(i + 1, t, made)
    IN IF ~AllParse(RealmojiStamps(realmojis)) THEN Processed(tree, <<>>, TRUE)
       ELSE loop(1, tree, <<>>)

----------------------------------------------------------------------------
(* Inputs *)

Outcome(full, minimal, save, jpegtag, utime, compose) ==
    [full |-> full, minimal |-> minimal, save |-> save, jpegtag |-> jpegtag,
     utime |-> utime, compose |-> compose]

Healthy == Outcome(TRUE, TRUE, TRUE, TRUE, TRUE, TRUE)

\* one outcome for every way a chain can end (calls after the first success
\* are not made, so their flags are left TRUE)
ChainOutcomes ==
    { Healthy,
      Outcome(FALSE, TRUE, TRUE, TRUE, TRUE, TRUE),
      Outcome(FALSE, FALSE, TRUE, TRUE, TRUE, TRUE),
      Outcome(FALSE, FALSE, FALSE, TRUE, TRUE, TRUE),
      Outcome(FALSE, FALSE, FALSE, TRUE, FALSE, TRUE),
      Outcome(FALSE, FALSE, TRUE, FALSE, TRUE, TRUE),
      Outcome(FALSE, FALSE, TRUE, FALSE, FALSE, TRUE) }

Outcomes == ChainOutcomes \cup {[oc EXCEPT !.compose = FALSE] : oc \in ChainOutcomes}

Src(id, fmt, places) == [id |-> id, fmt |-> fmt, places |-> places]

Places == {"literal", "rootrec", "post", "bereal", "realmoji"}

Sources ==
    { Src(1, "webp", {"literal"}), Src(2, "jpeg", {"literal"}),
      Src(3, "corrupt", {"literal"}), Src(4, "webp", {}),
      Src(5, "jpeg", {"post", "realmoji"}),
      Src(21, "webp", {"literal", "post"}), Src(22, "webp", {"rootrec", "bereal"}),
      Src(23, "webp", {"bereal", "realmoji"}), Src(24, "webp", {"realmoji"}) }

Locations == {NoLocation, Location(40, -74)}

Noon == 12 * TicksPerHour

Stamp(form, t) == [form |-> form, t |-> t]

Destinations ==
    {Path("posts", 1, view, ext) : view \in {"main-view", "selfie-view"}, ext \in {"webp", "jpg"}}

\* output trees left by an earlier export of a main view and a selfie view
ExportedPair(a, b) ==
    Only({ export_img(c.post, b, Path("posts", 1, "selfie-view", "webp"),
                      Noon, NoLocation, Healthy).post :
           c \in { export_img(EmptyTree, a, Path("posts", 1, "main-view", "webp"),
                              Noon, NoLocation, Healthy) } })

InitTrees ==
    {EmptyTree} \cup
    {ExportedPair(a, Src(6, "webp", {"literal"})) :
        a \in {Src(1, "webp", {"literal"}), Src(2, "jpeg", {"literal"}),
               Src(3, "corrupt", {"literal"})}}

Memory(ts, front, back, loc) ==
    [takenTime |-> ts, frontImage |-> front, backImage |-> back, location |-> loc]
Post(ts, primary, secondary, loc) ==
    [takenAt |-> ts, primary |-> primary, secondary |-> secondary, location |-> loc]
Realmoji(ts, media) == [postedAt |-> ts, media |-> media]

WebpFront == Src(11, "webp", {"literal"})
WebpBack == Src(12, "webp", {"literal"})
JpegBack == Src(13, "jpeg", {"literal"})
LostFront == Src(14, "webp", {})

Paris == Location(48, 2)
NewYork == Location(40, -74)

\* the window given as --timespan 15.06.2023-19.06.2023
TimeSpan == init_time_span(Args(TimespanArg(Date(2023, 6, 15), Date(2023, 6, 19)), NoArg))

\* the window given as --year 2023
YearSpan == init_time_span(Args(NoArg, YearArg(2023)))

MemoryLists ==
    { <<>>,
      <<Memory(Stamp("zeros", Noon), WebpFront, WebpBack, NewYork)>>,
      <<Memory(Stamp("seconds", Noon), WebpFront, JpegBack, NoLocation)>>,
      <<Memory(Stamp("garbage", 0), WebpFront, WebpBack, NoLocation),
        Memory(Stamp("micros", Noon + 1), WebpFront, WebpBack, NoLocation)>>,
      \* a record without frontImage beside a record in Paris
      <<Memory(Stamp("micros", Noon), MissingKey, WebpBack, NoLocation),
        Memory(Stamp("zeros", Noon + TicksPerHour), WebpFront, WebpBack, Paris)>>,
      \* two records taken within the same second
      <<Memory(Stamp("zeros", Noon), WebpFront, WebpBack, NoLocation),
        Memory(Stamp("micros", Noon + 1), Src(16, "webp", {"literal"}),
               Src(17, "webp", {"literal"}), NoLocation)>>,
      \* one record at each end of the window
      <<Memory(Stamp("zeros", TimeSpan.start), WebpFront, WebpBack, NoLocation),
        Memory(Stamp("zeros", TimeSpan.end), WebpFront, WebpBack, NoLocation)>>,
      \* a record taken in Paris and one taken an hour later in New York
      <<Memory(Stamp("zeros", Noon), WebpFront, WebpBack, Paris),
        Memory(Stamp("zeros", Noon + TicksPerHour), WebpFront, WebpBack, NewYork)>> }

PostLists ==
    { <<>>,
      <<Post(Stamp("zeros", Noon), WebpBack, WebpFront, NoLocation)>>,
      <<Post(Stamp("micros", Noon + TicksPerHour), WebpBack, LostFront, NoLocation),
        Post(Stamp("zeros", 200 * TicksPerHour), WebpBack, WebpFront, NoLocation)>>,
      \* two records taken within the same second, one without its primary
      <<Post(Stamp("zeros", Noon + 2 * TicksPerHour), WebpBack, WebpFront, NoLocation),
        Post(Stamp("micros", Noon + 2 * TicksPerHour + 1), Src(18, "webp", {"literal"}),
             Src(19, "webp", {"literal"}), NoLocation)>>,
      <<Post(Stamp("zeros", Noon + 3 * TicksPerHour), MissingKey, WebpFront, NoLocation),
        Post(Stamp("zeros", Noon + 4 * TicksPerHour), WebpBack, WebpFront, Paris)>>,
      \* one record on each side of the window, half a second outside it
      <<Post(Stamp("micros", TimeSpan.start - 1), WebpBack, WebpFront, NoLocation),
        Post(Stamp("micros", TimeSpan.end + 1), WebpBack, WebpFront, NoLocation)>> }

\* records of the last day of 2023 and of the first hour of 2024
YearMemoryLists ==
    { <<Memory(Stamp("zeros", Datetime(2023, 12, 31, 12)), WebpFront, WebpBack, NoLocation)>>,
      <<Memory(Stamp("zeros", Datetime(2023, 1, 1, 0)), WebpFront, WebpBack, NoLocation),
        Memory(Stamp("zeros", Datetime(2023, 12, 31, 0)), WebpFront, WebpBack, NoLocation)>> }

YearPostLists ==
    { <<>>,
      <<Post(Stamp("zeros", Datetime(2022, 12, 31, 23)), WebpBack, WebpFront, NoLocation),
        Post(Stamp("zeros", Datetime(2024, 1, 1, 0)), WebpBack, WebpFront, NoLocation)>> }

\* the state of the three JSON files: "ok", "missing" or "malformed"
AllOk == [memories |-> "ok", posts |-> "ok", realmojis |-> "ok"]

JsonStates ==
    { AllOk,
      [memories |-> "missing", posts |-> "ok", realmojis |-> "ok"],
      [memories |-> "ok", posts |-> "malformed", realmojis |-> "ok"],
      [memories |-> "malformed", posts |-> "ok", realmojis |-> "ok"],
      [memories |-> "ok", posts |-> "ok", realmojis |-> "malformed"] }

\* archives: every list of memories beside at most one post, every list of
\* posts beside at most one memory, every state of the JSON files, and the
\* records around the ends of a year
OneMemory == <<Memory(Stamp("zeros", Noon), WebpFront, WebpBack, NewYork)>>
OnePost == <<Post(Stamp("zeros", Noon), WebpBack, WebpFront, NoLocation)>>
OneRealmoji == <<Realmoji(Stamp("zeros", Noon), Src(15, "webp", {"bereal"}))>>
RealmojiLists == {<<>>, OneRealmoji}

Archives ==
    [memories : MemoryLists, posts : {<<>>, OnePost}, realmojis : {<<>>},
     json : {AllOk}, time_span : {TimeSpan}]
    \cup
    [memories : {<<>>, OneMemory}, posts : PostLists, realmojis : {<<>>},
     json : {AllOk}, time_span : {TimeSpan}]
    \cup
    [memories : {<<>>, OneMemory}, posts : {<<>>, OnePost}, realmojis : RealmojiLists,
     json : JsonStates, time_span : {TimeSpan}]
    \cup
    [memories : YearMemoryLists, posts : YearPostLists, realmojis : {<<>>},
     json : {AllOk}, time_span : {YearSpan}]

EmptyArchive ==
    [memories |-> <<>>, posts |-> <<>>, realmojis |-> <<>>,
     json |-> AllOk, time_span |-> TimeSpan]

\* how the external tools behave during one run: all calls succeed; ExifTool
\* cannot write the copied file but can write a JPEG; no tag write succeeds;
\* Pillow fails while composing
Tools ==
    { Healthy,
      Outcome(FALSE, FALSE, TRUE, TRUE, TRUE, TRUE),
      Outcome(FALSE, FALSE, TRUE, FALSE, TRUE, TRUE),
      Outcome(TRUE, TRUE, TRUE, TRUE, TRUE, FALSE) }

----------------------------------------------------------------------------
(* The run: __main__ exports memories, posts, realmojis, conversations *)

Idle == [i \in {} |-> 0]
NoProgress == [memories |-> 0, posts |-> 0]
\* no chooser or resolver call is in progress
NoConv ==
    [pc |-> "none", op |-> "none", original_files |-> <<>>, exported_files |-> <<>>,
     dims |-> <<>>, readable |-> TRUE, elapsed |-> 0, answer |-> "none",
     selection |-> "none", typed |-> "none", timed_out |-> FALSE, ret |-> Skip,
     pages |-> {}, answer_for |-> 0, decided_by |-> 0]

Init ==
    /\ fs = EmptyTree
    /\ log = <<>>
    /\ pc = "memories"
    /\ todo = {}
    /\ archive \in Archives
    /\ run = 1
    /\ first = EmptyTree
    /\ calls = 0
    /\ tool \in Tools
    /\ memfs = EmptyTree
    /\ handled = {}
    /\ workers = Idle
    /\ futures = {}
    /\ pbar = NoProgress
    /\ conv = NoConv
    /\ errors = {}
    /\ writers = {}

\* the paths a worker's step copied or saved a file to
WrittenBy(i, made) ==
    {<<CopyTarget(made[k]), i>> : k \in {n \in DOMAIN made : made[n].trace # <<>>}}

\* main reads memories.json; export_memories filters the records and submits
\* those in the window to the pool
LoadMemories ==
    /\ pc = "memories"
    /\ log' = <<>>
    /\ writers' = {}
    /\ IF archive.json.memories # "ok" THEN pc' = "posts" /\ todo' = {}
       ELSE IF ~AllParse(MemoryStamps(archive.memories)) THEN pc' = "aborted" /\ todo' = {}
       ELSE IF ValidIndices(MemoryStamps(archive.memories), archive.time_span) = {}
       THEN pc' = "posts" /\ todo' = {}
       ELSE /\ pc' = "memories_pool"
            /\ todo' = ValidIndices(MemoryStamps(archive.memories), archive.time_span)
    /\ UNCHANGED <<fs, archive, run, first, calls, tool, memfs, handled,
                   workers, futures, pbar, conv, errors>>

\* a pool worker cancels the pool when its record raises
WorkerMemory_cancels(i) ==
    /\ pc = "memories_pool"
    /\ i \in todo \cup DOMAIN workers
    /\ \E r \in {process_memory(fs, archive.memories[i], archive.time_span, tool,
                                IF i \in todo THEN 244 ELSE workers[i])} :
          /\ fs' = r.fs
          /\ log' = r.calls
          /\ writers' = writers \cup WrittenBy(i, r.calls)
          /\ IF r.line = Returned
             THEN /\ workers' = IF r.raised THEN Idle
                                ELSE [j \in DOMAIN workers \ {i} |-> workers[j]]
                  /\ todo' = IF r.raised THEN {} ELSE todo \ {i}
                  /\ futures' = futures \cup {[i |-> i, raised |-> r.raised]}
                  /\ handled' = handled \cup {<<"memories", i>>}
             ELSE /\ workers' = [j \in DOMAIN workers \cup {i} |->
                                    IF j = i THEN r.line ELSE workers[j]]
                  /\ todo' = todo \ {i}
                  /\ UNCHANGED <<futures, handled>>
    /\ UNCHANGED <<pc, archive, run, first, calls, tool, memfs, pbar, conv, errors>>

\* a pool worker takes process_memory of one submitted record one step further;
\* when the function returns or raises, the record's future completes
WorkerMemory(i) ==
    /\ pc = "memories_pool"
    /\ i \in todo \cup DOMAIN workers
    /\ \E r \in {process_memory(fs, archive.memories[i], archive.time_span, tool,
                                IF i \in todo THEN 244 ELSE workers[i])} :
          /\ fs' = r.fs
          /\ log' = r.calls
          /\ writers' = writers \cup WrittenBy(i, r.calls)
          /\ IF r.line = Returned
             THEN /\ workers' = [j \in DOMAIN workers \ {i} |-> workers[j]]
                  /\ futures' = futures \cup {[i |-> i, raised |-> r.raised]}
                  /\ handled' = handled \cup {<<"memories", i>>}
             ELSE /\ workers' = [j \in DOMAIN workers \cup {i} |->
                                    IF j = i THEN r.line ELSE workers[j]]
                  /\ UNCHANGED <<futures, handled>>
    /\ todo' = todo \ {i}
    /\ UNCHANGED <<pc, archive, run, first, calls, tool, memfs, pbar, conv, errors>>

\* the main thread takes a completed future from as_completed: the bar
\* advances by one, and an exception of the worker is reported
CollectMemory(i) ==
    /\ pc = "memories_pool"
    /\ \E f \in futures :
          /\ f.i = i
          /\ futures' = futures \ {f}
          /\ errors' = IF f.raised THEN errors \cup {<<"memories", i>>} ELSE errors
    /\ pbar' = [pbar EXCEPT !.memories = @ + 1]
    /\ log' = <<>>
    /\ UNCHANGED <<fs, pc, todo, archive, run, first, calls, tool, memfs, handled,
                   workers, conv, writers>>

\* every future has been collected: export_memories returns
JoinMemories ==
    /\ pc = "memories_pool"
    /\ todo = {} /\ workers = Idle /\ futures = {}
    /\ pc' = "posts"
    /\ log' = <<>>
    /\ UNCHANGED <<fs, archive, run, first, calls, tool, memfs, handled, poolVars, conv>>

\* a handler that gives up the run when posts.json cannot be decoded
LoadPosts_malformed_aborts ==
    /\ pc = "posts"
    /\ log' = <<>>
    /\ memfs' = fs
    /\ writers' = {}
    /\ IF archive.json.posts = "malformed" THEN pc' = "aborted" /\ todo' = {}
       ELSE IF archive.json.posts # "ok" THEN pc' = "realmojis" /\ todo' = {}
       ELSE IF ~AllParse(PostStamps(archive.posts)) THEN pc' = "aborted" /\ todo' = {}
       ELSE IF ValidIndices(PostStamps(archive.posts), archive.time_span) = {}
       THEN pc' = "realmojis" /\ todo' = {}
       ELSE /\ pc' = "posts_pool"
            /\ todo' = ValidIndices(PostStamps(archive.posts), archive.time_span)
    /\ UNCHANGED <<fs, archive, run, first, calls, tool, handled,
                   workers, futures, pbar, conv, errors>>

\* main reads posts.json; export_posts filters the records and submits those
\* in the window to the pool
LoadPosts ==
    /\ pc = "posts"
    /\ log' = <<>>
    /\ memfs' = fs
    /\ writers' = {}
    /\ IF archive.json.posts # "ok" THEN pc' = "realmojis" /\ todo' = {}
       ELSE IF ~AllParse(PostStamps(archive.posts)) THEN pc' = "aborted" /\ todo' = {}
       ELSE IF ValidIndices(PostStamps(archive.posts), archive.time_span) = {}
       THEN pc' = "realmojis" /\ todo' = {}
       ELSE /\ pc' = "posts_pool"
            /\ todo' = ValidIndices(PostStamps(archive.posts), archive.time_span)
    /\ UNCHANGED <<fs, archive, run, first, calls, tool, handled,
                   workers, futures, pbar, conv, errors>>

WorkerPost(i) ==
    /\ pc = "posts_pool"
    /\ i \in todo \cup DOMAIN workers
    /\ \E r \in {process_post(fs, archive.posts[i], archive.time_span, tool,
                              IF i \in todo THEN 283 ELSE workers[i])} :
          /\ fs' = r.fs
          /\ log' = r.calls
          /\ writers' = writers \cup WrittenBy(i, r.calls)
          /\ IF r.line = Returned
             THEN /\ workers' = [j \in DOMAIN workers \ {i} |-> workers[j]]
                  /\ futures' = futures \cup {[i |-> i, raised |-> r.raised]}
                  /\ handled' = handled \cup {<<"posts", i>>}
             ELSE /\ workers' = [j \in DOMAIN workers \cup {i} |->
                                    IF j = i THEN r.line ELSE workers[j]]
                  /\ UNCHANGED <<futures, handled>>
    /\ todo' = todo \ {i}
    /\ UNCHANGED <<pc, archive, run, first, calls, tool, memfs, pbar, conv, errors>>

CollectPost(i) ==
    /\ pc = "posts_pool"
    /\ \E f \in futures :
          /\ f.i = i
          /\ futures' = futures \ {f}
          /\ errors' = IF f.raised THEN errors \cup {<<"posts", i>>} ELSE errors
    /\ pbar' = [pbar EXCEPT !.posts = @ + 1]
    /\ log' = <<>>
    /\ UNCHANGED <<fs, pc, todo, archive, run, first, calls, tool, memfs, handled,
                   workers, conv, writers>>

JoinPosts ==
    /\ pc = "posts_pool"
    /\ todo = {} /\ workers = Idle /\ futures = {}
    /\ pc' = "realmojis"
    /\ log' = <<>>
    /\ UNCHANGED <<fs, archive, run, first, calls, tool, memfs, handled, poolVars, conv>>

\* main reads realmojis.json and export_realmojis exports the records in turn
ExportRealmojis ==
    /\ pc = "realmojis"
    /\ \E r \in {export_realmojis(fs, archive.realmojis, archive.time_span, tool)} :
          IF archive.json.realmojis # "ok"
          THEN pc' = "conversations" /\ fs' = fs /\ log' = <<>> /\ handled' = handled
          ELSE IF r.raised
          THEN pc' = "aborted" /\ fs' = fs /\ log' = <<>> /\ handled' = handled
          ELSE /\ pc' = "conversations"
               /\ fs' = r.fs
               /\ log' = r.calls
               /\ handled' = handled \cup
                      {<<"realmojis", i>> : i \in ValidIndices(RealmojiStamps(archive.realmojis),
                                                                archive.time_span)}
    /\ UNCHANGED <<archive, run, first, calls, tool, memfs, poolVars, conv>>

\* the archive holds no conversations folder: export_conversations returns at once
ExportConversations ==
    /\ pc = "conversations"
    /\ pc' = "done"
    /\ log' = <<>>
    /\ UNCHANGED <<fs, archive, run, first, calls, tool, memfs, handled, poolVars, conv>>

\* the program is started again on the same archive and the same output tree
Rerun ==
    /\ pc = "done"
    /\ run < MaxRuns
    /\ run' = run + 1
    /\ first' = fs
    /\ pc' = "memories"
    /\ tool' \in Tools
    /\ log' = <<>>
    /\ handled' = {}
    /\ pbar' = NoProgress
    /\ errors' = {}
    /\ writers' = {}
    /\ UNCHANGED <<fs, todo, archive, calls, memfs, workers, futures, conv>>

Next ==
    \/ LoadMemories
    \/ \E i \in 1..Len(archive.memories) : WorkerMemory(i)
    \/ \E i \in 1..Len(archive.memories) : CollectMemory(i)
    \/ JoinMemories
    \/ LoadPosts
    \/ \E i \in 1..Len(archive.posts) : WorkerPost(i)
    \/ \E i \in 1..Len(archive.posts) : CollectPost(i)
    \/ JoinPosts
    \/ ExportRealmojis
    \/ ExportConversations
    \/ Rerun

Spec == Init /\ [][Next]_vars

----------------------------------------------------------------------------
(* Direct calls of the exporter and the synthesizer on an output tree *)

InitImg ==
    /\ fs \in InitTrees
    /\ log = <<>>
    /\ pc = "call"
    /\ todo = {}
    /\ archive = EmptyArchive
    /\ run = 1
    /\ first = EmptyTree
    /\ calls = 0
    /\ tool = Healthy
    /\ memfs = EmptyTree
    /\ handled = {}
    /\ workers = Idle
    /\ futures = {}
    /\ pbar = NoProgress
    /\ conv = NoConv
    /\ errors = {}
    /\ writers = {}

CallExportImg ==
    /\ calls < MaxCalls
    /\ \E src \in Sources, dst \in Destinations, loc \in Locations, oc \in ChainOutcomes :
          \E c \in {export_img(fs, src, dst, Noon, loc, oc)} :
             fs' = c.post /\ log' = <<c>>
    /\ calls' = calls + 1
    /\ UNCHANGED <<pc, archive, run, first, tool, memfs, handled, poolVars, conv>>

\* the callers pass the two exported .webp paths once both exist
CallCreateComposite ==
    /\ calls < MaxCalls
    /\ \E p \in DOMAIN fs, q \in DOMAIN fs, loc \in Locations, oc \in Outcomes :
          /\ p # q /\ p.ext = "webp" /\ q.ext = "webp"
          /\ p.view # "composited" /\ q.view # "composited"
          /\ \E c \in {create_composite_image(fs, p, q, Path("posts", 1, "composited", "webp"),
                                               Noon, loc, oc)} :
                fs' = c.post /\ log' = <<c>>
    /\ calls' = calls + 1
    /\ UNCHANGED <<pc, archive, run, first, tool, memfs, handled, poolVars, conv>>

NextImg == CallExportImg \/ CallCreateComposite

SpecImg == InitImg /\ [][NextImg]_vars

----------------------------------------------------------------------------
(* Direct calls of the pairing resolver and of the two interactive        *)
(* choosers on the two exported images of one conversation group           *)

ExportedFiles ==
    <<Path("conversations", 1, "image-1", "webp"), Path("conversations", 1, "image-2", "webp")>>

\* original file names: 1-secondary-x.webp, 1-y.webp, 1-SECONDARY-back.webp,
\* 1-Front.webp, 1-back.webp, 1.webp, 1-Secondary-y.webp,
\* 1-secondary-front.webp, 1-x.webp, 1-X.webp
Names ==
    { <<"1", "secondary", "x">>, <<"1", "y">>, <<"1", "SECONDARY", "back">>,
      <<"1", "Front">>, <<"1", "back">>, <<"1">>, <<"1", "Secondary", "y">>,
      <<"1", "secondary", "front">>, <<"1", "x">>, <<"1", "X">> }

\* two files of one folder in either order, and a group of three of which
\* two were exported
OriginalLists ==
    {pair \in Names \X Names : pair[1] # pair[2]}
        \cup {<<(<<"1">>), (<<"1", "secondary", "x">>), (<<"1", "y">>)>>}

ImageDims ==
    {Dims(3, 4), Dims(6, 8), Dims(1, 1), Dims(4, 3), Dims(21, 20), Dims(6, 5),
     Dims(9, 10), Dims(7, 10), NoDims}

Answers == {"1", "2", "skip", "other"}
Inputs == {"1", "2", "3", "other", "eof", "interrupt"}

convVars == <<fs, log, pc, archive, run, first, tool, memfs, handled, poolVars>>

InitConv ==
    /\ fs = EmptyTree
    /\ log = <<>>
    /\ pc = "call"
    /\ todo = {}
    /\ archive = EmptyArchive
    /\ run = 1
    /\ first = EmptyTree
    /\ calls = 0
    /\ tool = Healthy
    /\ memfs = EmptyTree
    /\ handled = {}
    /\ workers = Idle
    /\ futures = {}
    /\ pbar = NoProgress
    /\ conv = NoConv
    /\ errors = {}
    /\ writers = {}

\* one run resolves all its pairs in one mode: automatic, browser or prompt;
\* the resolver keeps nothing from one pair to the next, so one call is made
CallDetect ==
    /\ calls < MaxPairs
    /\ conv.pc = "none"
    /\ \E original_files \in OriginalLists, d1 \in ImageDims, d2 \in ImageDims :
          \E r \in {detect_primary_overlay_conversation(original_files, ExportedFiles, <<d1, d2>>)} :
             conv' = [NoConv EXCEPT !.pc = "returned", !.op = "detect",
                                    !.original_files = original_files,
                                    !.exported_files = ExportedFiles,
                                    !.dims = <<d1, d2>>, !.ret = r]
    /\ calls' = calls + 1
    /\ UNCHANGED convVars

\* web_ui_choose_primary_overlay is entered with the two exported images of
\* the next pair; the pages of earlier pairs stay open in the browser and a
\* result file in the Downloads folder stays where it is
CallWebUi ==
    /\ calls < MaxPairs
    /\ conv.pc \in {"none", "returned"}
    /\ conv.op \in {"none", "web_ui"}
    /\ \E readable \in BOOLEAN :
          conv' = [NoConv EXCEPT !.pc = "page", !.op = "web_ui",
                                 !.exported_files = ExportedFiles, !.readable = readable,
                                 !.pages = conv.pages, !.answer = conv.answer,
                                 !.answer_for = conv.answer_for]
    /\ calls' = calls + 1
    /\ UNCHANGED convVars

\* the page embeds both images; when one cannot be read the call hands
\* over to the terminal prompt and returns what the prompt returns
WebBuildPage ==
    /\ conv.pc = "page"
    /\ conv' = IF conv.readable
               THEN [conv EXCEPT !.pc = "polling", !.pages = conv.pages \cup {calls}]
               ELSE [conv EXCEPT !.pc = "prompt"]
    /\ UNCHANGED <<calls, convVars>>

\* a click on one of the open pages: the browser stores the result file
BrowserWrites ==
    /\ conv.pc \in {"polling", "returned"}
    /\ conv.answer = "none"
    /\ \E answer \in Answers, page \in conv.pages :
          conv' = [conv EXCEPT !.answer = answer, !.answer_for = page]
    /\ UNCHANGED <<calls, convVars>>

\* one round of the polling loop: a result file is read and removed, and
\* the round sleeps unless the file held a recognised answer
WebPoll ==
    /\ conv.pc = "polling"
    /\ loop_continues(conv.selection, conv.elapsed)
    /\ \E lag \in 1..MaxLag :
          \E later \in {IF conv.elapsed + lag > MaxClock THEN MaxClock ELSE conv.elapsed + lag} :
             conv' = IF conv.answer = "none"
                     THEN [conv EXCEPT !.elapsed = later]
                     ELSE IF Recognised(conv.answer)
                     THEN [conv EXCEPT !.selection = conv.answer, !.answer = "none",
                                       !.decided_by = conv.answer_for]
                     ELSE [conv EXCEPT !.answer = "none", !.elapsed = later]
    /\ UNCHANGED <<calls, convVars>>

\* Ctrl-C inside the polling loop
WebInterrupt ==
    /\ conv.pc = "polling"
    /\ loop_continues(conv.selection, conv.elapsed)
    /\ conv' = [conv EXCEPT !.selection = "skip"]
    /\ UNCHANGED <<calls, convVars>>

\* after the loop: no selection means the timeout passed
WebReturn ==
    /\ conv.pc = "polling"
    /\ ~loop_continues(conv.selection, conv.elapsed)
    /\ \E selection \in {IF conv.selection = "none" THEN "skip" ELSE conv.selection} :
          conv' = [conv EXCEPT !.pc = "returned",
                               !.timed_out = (conv.selection = "none"),
                               !.ret = Chosen(selection, conv.exported_files)]
    /\ UNCHANGED <<calls, convVars>>

\* interactive_choose_primary_overlay is entered with the two exported images
CallPrompt ==
    /\ calls < MaxPairs
    /\ conv.pc \in {"none", "returned"}
    /\ conv.op \in {"none", "interactive"}
    /\ conv' = [NoConv EXCEPT !.pc = "prompt", !.op = "interactive",
                              !.exported_files = ExportedFiles]
    /\ calls' = calls + 1
    /\ UNCHANGED convVars

\* the user answers the prompt; input() raises on end of input or Ctrl-C
UserTypes ==
    /\ conv.pc = "prompt"
    /\ \E choice \in Inputs :
          conv' = IF choice \in {"1", "2"}
                  THEN [conv EXCEPT !.pc = "returned", !.typed = choice,
                                    !.ret = Chosen(choice, conv.exported_files)]
                  ELSE IF choice \in {"3", "eof", "interrupt"}
                  THEN [conv EXCEPT !.pc = "returned", !.typed = choice, !.ret = Skip]
                  ELSE [conv EXCEPT !.typed = choice]
    /\ UNCHANGED <<calls, convVars>>

\* the steps the program takes without anyone's help
ChooserStep == WebBuildPage \/ WebPoll \/ WebReturn

NextConv ==
    \/ CallDetect
    \/ CallWebUi
    \/ CallPrompt
    \/ ChooserStep
    \/ BrowserWrites
    \/ WebInterrupt
    \/ UserTypes

SpecConv == InitConv /\ [][NextConv]_vars

\* the program keeps running; the browser and the user owe nothing
SpecConvLive == SpecConv /\ WF_vars(ChooserStep)

----------------------------------------------------------------------------
(* Overlay geometry of the composite *)

Min(a, b) == IF a < b THEN a ELSE b

\* secondary_width = primary.width // 3
secondary_width(primary) == primary.w \div 3

\* (height, width, secondary_width) for which the double product
\* height * (secondary_width / width) lies just below the whole number
\* height * secondary_width / width: 305 * (400 / 305) is 399.99999999999994
RoundsBelow == {<<305, 305, 400>>}

\* secondary_height = int(secondary.height * (secondary_width / secondary.width))
secondary_height(secondary, width) ==
    IF <<secondary.h, secondary.w, width>> \in RoundsBelow
    THEN (secondary.h * width) \div secondary.w - 1
    ELSE (secondary.h * width) \div secondary.w

\* corner_radius = min(secondary_width, secondary_height) // 10
corner_radius(width, height) == Min(width, height) \div 10

----------------------------------------------------------------------------
(* Direct calls of the time resolver and of the overlay geometry *)

Sydney == Location(-33, 151)
\* a point no zone covers, and coordinates the lookup rejects
MidOcean == Location(0, 0)
OffTheMap == Location(91, 0)

LookupLocations == {NoLocation, NewYork, Paris, Sydney, MidOcean, OffTheMap}

\* instants on both sides of the 2023 clock changes of the three zones, a
\* summer noon, and the first and last hours of the year
Instants ==
    {Noon, Datetime(2023, 1, 1, 0), Datetime(2023, 12, 31, 23)}
    \cup {t - 1 + d : t \in {Datetime(2023, 3, 12, 7), Datetime(2023, 11, 5, 6),
                             Datetime(2023, 3, 26, 1), Datetime(2023, 10, 29, 1),
                             Datetime(2023, 4, 1, 16), Datetime(2023, 9, 30, 16)},
                      d \in {0, 1}}

PrimarySizes == {Dims(1200, 1600), Dims(1500, 2000), Dims(1000, 750), Dims(100, 100)}
SecondarySizes ==
    {Dims(400, 600), Dims(1500, 2000), Dims(600, 400), Dims(1000, 1000), Dims(7, 5), Dims(305, 305)}

CallConvertToLocalTime ==
    /\ calls < MaxCalls
    /\ \E utc_dt \in Instants, location \in LookupLocations :
          log' = <<[op |-> "convert_to_local_time", utc_dt |-> utc_dt, location |-> location,
                    local_dt |-> convert_to_local_time(utc_dt, location)]>>
    /\ calls' = calls + 1
    /\ UNCHANGED <<fs, pc, archive, run, first, tool, memfs, handled, poolVars, conv>>

\* lines 907-915 of create_composite_image on two opened images
CallOverlayGeometry ==
    /\ calls < MaxCalls
    /\ \E primary \in PrimarySizes, secondary \in SecondarySizes :
          \E width \in {secondary_width(primary)} :
             \E height \in {secondary_height(secondary, width)} :
                log' = <<[op |-> "overlay_geometry", primary |-> primary, secondary |-> secondary,
                          secondary_width |-> width, secondary_height |-> height,
                          corner_radius |-> corner_radius(width, height)]>>
    /\ calls' = calls + 1
    /\ UNCHANGED <<fs, pc, archive, run, first, tool, memfs, handled, poolVars, conv>>

NextFn == CallConvertToLocalTime \/ CallOverlayGeometry

SpecFn == InitConv /\ [][NextFn]_vars

----------------------------------------------------------------------------
(* Properties *)

Calls == {log[i] : i \in DOMAIN log}
ExportCalls == {c \in Calls : c.op = "export_img"}
CompositeCalls == {c \in Calls : c.op = "create_composite_image"}

\* the files a call created or changed
Written(c) ==
    {p \in DOMAIN c.post : p \notin DOMAIN c.pre \/ c.post[p] # c.pre[p]}

ExtensionMatches(p, f) ==
    \/ f.fmt = "webp" /\ p.ext = "webp"
    \/ f.fmt = "jpeg" /\ p.ext \in {"jpg", "jpeg"}

SourceFound(src) == src.places \cap Places # {}

C5_ChainNeverRaises ==
    \A c \in Calls : c.trace # <<>> => ~c.raised

C5_Witness ==
    \E c \in CompositeCalls :
        /\ Len(c.trace) = 4
        /\ \A k \in 1..4 : ~c.trace[k].ok
        /\ ~c.raised

ChainOrder == <<"full", "minimal", "transcode", "utime">>

\* C6: the steps of the chain run in the order full, minimal, transcode, utime,
\* each one only after the one before it failed, and none after a success
C6_ChainOrder ==
    \A c \in Calls :
        /\ Len(c.trace) <= Len(ChainOrder)
        /\ \A k \in 1..Len(c.trace) :
              /\ c.trace[k].step = ChainOrder[k]
              /\ k < Len(c.trace) => ~c.trace[k].ok

C6_Witness ==
    \E c \in ExportCalls :
        /\ Len(c.trace) = 3
        /\ c.trace[2] = Step("minimal", FALSE)
        /\ c.trace[3] = Step("transcode", TRUE)

\* C9: when neither the source path nor any fallback location is a file,
\* export_img returns normally and creates nothing
C9_NotFoundCreatesNothing ==
    \A c \in ExportCalls :
        ~SourceFound(c.src) => (c.post = c.pre /\ ~c.raised)

C9_Witness ==
    \E c \in ExportCalls :
        /\ ~SourceFound(c.src)
        /\ ~Exists(c.post, c.dst)
        /\ c.trace = <<>>

\* a step of the composition failed: an image does not decode or Pillow raised
CompositionFailed(c) ==
    \/ ~c.oc.compose
    \/ c.pre[c.primary].fmt = "corrupt"
    \/ c.pre[c.secondary].fmt = "corrupt"

IsCopyOf(f, background) == f.img = background.img /\ f.ov = NoImg

C15_JpegLandsAtJpg ==
    \A c \in ExportCalls :
        (SourceFound(c.src) /\ c.src.fmt = "jpeg" /\ c.dst.ext = "webp") =>
            LET jpg == ReplaceExt(c.dst, "webp", "jpg")
            IN /\ Exists(c.post, jpg)
               /\ c.post[jpg].fmt = "jpeg"
               /\ c.post[jpg].img.id = c.src.id
               /\ ~Exists(c.pre, c.dst) => ~Exists(c.post, c.dst)

HasTag(f, name) == name \in DOMAIN f.tags

\* the composite's fallback copy inherits the tags of the background
InheritsTags(c, p) == c.op = "create_composite_image" /\ c.post[p].kind # "composite"

\* C20: a file written with a GPS latitude or longitude carries both and both
\* hemisphere tags, N or S and E or W by the sign of the coordinate; a call
\* without coordinates writes no GPS tag
C20_GpsWithHemisphere ==
    \A c \in Calls : \A p \in Written(c) :
        LET f == c.post[p]
        IN /\ (c.loc.present /\ (HasTag(f, "GPSLatitude") \/ HasTag(f, "GPSLongitude"))) =>
                 /\ HasTag(f, "GPSLatitude") /\ f.tags["GPSLatitude"] = c.loc.latitude
                 /\ HasTag(f, "GPSLongitude") /\ f.tags["GPSLongitude"] = c.loc.longitude
                 /\ HasTag(f, "GPSLatitudeRef")
                 /\ HasTag(f, "GPSLongitudeRef")
                 /\ f.tags["GPSLatitudeRef"] = (IF c.loc.latitude >= 0 THEN "N" ELSE "S")
                 /\ f.tags["GPSLongitudeRef"] = (IF c.loc.longitude >= 0 THEN "E" ELSE "W")
           /\ (~c.loc.present /\ ~InheritsTags(c, p)) =>
                 \A name \in {"GPSLatitude", "GPSLongitude", "GPSLatitudeRef",
                              "GPSLongitudeRef"} : ~HasTag(f, name)

----------------------------------------------------------------------------
(* Properties of the run *)

\* C3: export_img called on a destination that exists leaves it as it was
\* and writes no tag
C3_SkipIfExists ==
    \A c \in ExportCalls :
        Exists(c.pre, c.dst) =>
            /\ c.trace = <<>>
            /\ Exists(c.post, c.dst)
            /\ c.post[c.dst] = c.pre[c.dst]

\* C2: a second run over the same archive and the first run's output writes
\* nothing, and the tree it ends with is the tree the first run ended with
C2_RerunWritesNothing ==
    run >= 2 =>
        /\ \A c \in Calls : c.trace = <<>> /\ c.post = c.pre
        /\ pc = "done" => fs = first

\* C4: in a run on an empty tree the files the memories left are still there,
\* unchanged, while and after the posts are exported
C4_MemoryFilesKept ==
    (run = 1 /\ pc \in {"posts_pool", "realmojis", "conversations", "done"}) =>
        \A p \in DOMAIN memfs : Exists(fs, p) /\ fs[p] = memfs[p]

BaseName(stamp, loc) ==
    Strftime(convert_to_local_time(get_datetime_from_str(stamp).dt, loc))

HasView(base_filename, view) ==
    \E ext \in {"webp", "jpg"} : Exists(fs, Path("posts", base_filename, view, ext))

ThreeFiles(base_filename) ==
    /\ HasView(base_filename, "main-view")
    /\ HasView(base_filename, "selfie-view")
    /\ HasView(base_filename, "composited")

Exportable(stamp) ==
    /\ get_datetime_from_str(stamp).ok
    /\ InTimeSpan(get_datetime_from_str(stamp).dt, archive.time_span)

\* C8: once the run is done, every processed memory or post in the window
\* whose two sources were found has its main view, selfie view and composite
C8_ThreeFilesPerRecord ==
    pc = "done" =>
        /\ \A i \in 1..Len(archive.memories) :
              LET m == archive.memories[i]
              IN (/\ <<"memories", i>> \in handled
                  /\ Exportable(m.takenTime)
                  /\ SourceFound(m.frontImage) /\ SourceFound(m.backImage))
                 => ThreeFiles(BaseName(m.takenTime, m.location))
        /\ \A i \in 1..Len(archive.posts) :
              LET q == archive.posts[i]
              IN (/\ <<"posts", i>> \in handled
                  /\ Exportable(q.takenAt)
                  /\ SourceFound(q.primary) /\ SourceFound(q.secondary))
                 => ThreeFiles(BaseName(q.takenAt, q.location))

WellFormed(category) ==
    LET records == archive[category]
        stamp(r) == CASE category = "memories" -> r.takenTime
                      [] category = "posts" -> r.takenAt
                      [] OTHER -> r.postedAt
    IN {i \in 1..Len(records) : Exportable(stamp(records[i]))}

\* C10: a record whose timestamp cannot be parsed is skipped alone: the run
\* never aborts, and when it is done every record of a readable category
\* that parses and lies in the window has been processed
C10_BadTimestampSkippedAlone ==
    /\ pc # "aborted"
    /\ pc = "done" =>
          \A category \in {"memories", "posts", "realmojis"} :
              archive.json[category] = "ok" =>
                  \A i \in WellFormed(category) : <<category, i>> \in handled

----------------------------------------------------------------------------
(* Properties of the pool *)

Submitted(category) ==
    IF category = "memories"
    THEN ValidIndices(MemoryStamps(archive.memories), archive.time_span)
    ELSE ValidIndices(PostStamps(archive.posts), archive.time_span)

\* the records of a category whose processing raises: a key of the record is absent
Raising(category) ==
    IF category = "memories"
    THEN {i \in Submitted("memories") :
            archive.memories[i].frontImage = MissingKey
            \/ archive.memories[i].backImage = MissingKey}
    ELSE {i \in Submitted("posts") :
            archive.posts[i].primary = MissingKey \/ archive.posts[i].secondary = MissingKey}

PoolOf(category) == IF category = "memories" THEN "memories_pool" ELSE "posts_pool"

\* the stages that come after the pool of a category has been joined
After(category) ==
    IF category = "memories"
    THEN {"posts", "posts_pool", "realmojis", "conversations", "done"}
    ELSE {"realmojis", "conversations", "done"}

\* C11: an exception in one worker stays with its record.  While a pool runs,
\* every submitted record is waiting, running, completed or counted, each once;
\* a record is reported only if its own processing raised; when the pool has
\* been joined every submitted record has run, the bar stands at the number
\* submitted and exactly the raising records have been reported.
C11_ErrorStaysWithRecord ==
    \A category \in {"memories", "posts"} :
        /\ pc = PoolOf(category) =>
              /\ pbar[category] + Cardinality(futures) + Cardinality(DOMAIN workers)
                    + Cardinality(todo) = Cardinality(Submitted(category))
              /\ \A e \in errors : e[1] = category => e[2] \in Raising(category)
        /\ (pc \in After(category) /\ archive.json[category] = "ok") =>
              /\ pbar[category] = Cardinality(Submitted(category))
              /\ \A i \in Submitted(category) : <<category, i>> \in handled
              /\ {e[2] : e \in {x \in errors : x[1] = category}} = Raising(category)

\* a record raised, was reported, and its sibling was exported all the same
C11_Witness ==
    /\ pc = "posts"
    /\ pbar.memories = 2
    /\ \E i \in Raising("memories"), j \in Submitted("memories") :
          /\ i # j
          /\ <<"memories", i>> \in errors
          /\ <<"memories", j>> \notin errors
          /\ \A view \in {"main-view", "selfie-view", "composited"} :
                HasView(BaseName(archive.memories[j].takenTime,
                                 archive.memories[j].location), view)

\* C12: within one pool no path is copied to or saved by two workers
C12_OneWriterPerFile ==
    \A w1 \in writers, w2 \in writers : w1[1] = w2[1] => w1[2] = w2[2]

----------------------------------------------------------------------------
(* Properties of names, windows and categories *)

Categories == {"memories", "posts", "realmojis"}

StampOf(category, i) ==
    CASE category = "memories" -> archive.memories[i].takenTime
      [] category = "posts" -> archive.posts[i].takenAt
      [] OTHER -> archive.realmojis[i].postedAt

LocationOf(category, i) ==
    CASE category = "memories" -> archive.memories[i].location
      [] category = "posts" -> archive.posts[i].location
      [] OTHER -> NoLocation

\* the stages that come after a category has been exported
Past(category) ==
    CASE category = "memories" -> {"posts", "posts_pool", "realmojis", "conversations", "done"}
      [] category = "posts" -> {"realmojis", "conversations", "done"}
      [] OTHER -> {"conversations", "done"}

\* the offset from UTC, in hours, that holds at a location in June and in
\* December and January: New York when the record carries no coordinates
ExpectedOffsetHours(loc, t) ==
    LET summer == Datetime(2023, 4, 1, 0) <= t /\ t < Datetime(2023, 10, 1, 0)
    IN IF loc = Paris THEN (IF summer THEN 2 ELSE 1) ELSE (IF summer THEN -4 ELSE -5)

\* the local second of a record's capture instant: the text YYYY-MM-DD_HH-MM-SS
ExpectedBaseName(category, i) ==
    (StampOf(category, i).t
        + ExpectedOffsetHours(LocationOf(category, i), StampOf(category, i).t) * TicksPerHour)
    \div TicksPerSecond

PoolCategory == IF pc = "memories_pool" THEN "memories" ELSE "posts"

InWindow(t) == archive.time_span.start <= t /\ t <= archive.time_span.end

YearOf(t) ==
    IF t < Datetime(2023, 1, 1, 0) THEN 2022
    ELSE IF t < Datetime(2024, 1, 1, 0) THEN 2023 ELSE 2024

\* C18: with --year 2023, once a category has been exported its records of
\* calendar year 2023 are exactly the records that were processed
C18_WholeYearExported ==
    archive.time_span = YearSpan =>
        \A category \in Categories :
            (pc \in Past(category) /\ archive.json[category] = "ok") =>
                \A i \in 1..Len(archive[category]) :
                    YearOf(StampOf(category, i).t) = 2023 <=> <<category, i>> \in handled

\* the stage main enters after a category
StageAfter(category) ==
    CASE category = "memories" -> "posts"
      [] category = "posts" -> "realmojis"
      [] OTHER -> "conversations"

\* a category's handler gives way to the next stage when its file is malformed
MalformedIsSkipped ==
    \A category \in Categories :
        (pc = category /\ archive.json[category] = "malformed") =>
            pc' = StageAfter(category)

\* C19: a malformed JSON file sends main on to the next stage, it never ends
\* the run, and at the end of the run every record in the window of every
\* category whose file was read has been processed
C19_MalformedSkipsOneCategory ==
    /\ [][MalformedIsSkipped]_vars
    /\ [](pc = "aborted" =>
            \E category \in Categories :
                /\ archive.json[category] = "ok"
                /\ \E i \in 1..Len(archive[category]) :
                      ~get_datetime_from_str(StampOf(category, i)).ok)
    /\ [](pc = "done" =>
            \A category \in Categories :
                archive.json[category] = "ok" =>
                    \A i \in 1..Len(archive[category]) :
                        InWindow(StampOf(category, i).t) => <<category, i>> \in handled)

\* posts.json was malformed; the memory and the realmoji were exported and
\* the conversations stage has run
C19_Witness ==
    /\ pc = "done"
    /\ archive.json.posts = "malformed"
    /\ archive.posts # <<>>
    /\ <<"memories", 1>> \in handled
    /\ <<"realmojis", 1>> \in handled
    /\ \A i \in 1..Len(archive.posts) : <<"posts", i>> \notin handled
    /\ Exists(fs, Path("realmojis", ExpectedBaseName("realmojis", 1), "", "webp"))

----------------------------------------------------------------------------
(* Properties of the pairing resolver and of the choosers *)

DetectReturned == conv.op = "detect" /\ conv.pc = "returned"
HasSecondary(name) == \E k \in DOMAIN name : name[k] \in {"secondary", "Secondary", "SECONDARY"}

\* C14: with two original files and two exported files, when exactly one
\* original file name contains "secondary" in any letter case, the export of
\* that file is returned as the overlay and the export of the other file as
\* the background, in either order of the two files.
C14_SecondaryIsOverlay ==
    DetectReturned /\ Len(conv.original_files) = 2 =>
        \A k \in 1..2 :
           HasSecondary(conv.original_files[k]) /\ ~HasSecondary(conv.original_files[3 - k]) =>
               conv.ret = Pair(conv.exported_files[3 - k], conv.exported_files[k])

\* 1-y.webp and 1-secondary-x.webp, in this order, give 1-y as background
C14_Witness ==
    /\ DetectReturned
    /\ conv.original_files = <<(<<"1", "y">>), (<<"1", "secondary", "x">>)>>
    /\ conv.ret = Pair(ExportedFiles[1], ExportedFiles[2])

WebCalled == conv.op = "web_ui" /\ conv.pc = "page"
WebReturned == conv.op = "web_ui" /\ conv.pc = "returned"
Polling == conv.op = "web_ui" /\ conv.pc = "polling"
TimeoutIsSkip == conv.timed_out => conv.ret = Skip /\ conv.elapsed >= timeout

\* C13 as stated: every call of web_ui_choose_primary_overlay returns, and
\* it returns the skip signal when the timeout passes without a recognised
\* answer.
C13_CallNeverWaitsForever == (WebCalled ~> WebReturned) /\ []TimeoutIsSkip

\* C13: once the polling loop has started, the call returns; the loop never
\* runs past the timeout by more than one round; and when the timeout passes
\* without a recognised answer the call returns the skip signal.
C13_PollingEndsInSkip ==
    /\ Polling ~> WebReturned
    /\ [](Polling => conv.elapsed < MaxClock)
    /\ []TimeoutIsSkip

\* the timeout passed with no answer read and the call returned skip
C13_Witness ==
    /\ WebReturned
    /\ conv.timed_out
    /\ conv.selection = "none"
    /\ conv.elapsed >= timeout
    /\ conv.ret = Skip

----------------------------------------------------------------------------
(* Properties of the time resolver *)

ConvertCalls == {c \in Calls : c.op = "convert_to_local_time"}

\* the zone the coordinates lie in, where one is known for them
ZoneAt(location) ==
    CASE location = NewYork -> "America/New_York"
      [] location = Paris -> "Europe/Paris"
      [] location = Sydney -> "Australia/Sydney"
      [] OTHER -> "America/New_York"

\* C21: convert_to_local_time shifts the UTC instant by the offset, at that
\* instant, of the zone looked up for the coordinates; without coordinates,
\* when the lookup finds no zone or when it raises, by the offset of
\* America/New_York at that instant.
C21_LocalTimeOfChosenZone ==
    \A c \in ConvertCalls :
        c.local_dt = c.utc_dt + UtcOffsetHours(ZoneAt(c.location), c.utc_dt) * TicksPerHour

\* half a second before New York's clocks go back, 05:59:59.5 UTC is
\* 01:59:59.5 local time for a record without coordinates
C21_Witness ==
    \E c \in ConvertCalls :
        /\ c.location = NoLocation
        /\ c.utc_dt = Datetime(2023, 11, 5, 6) - 1
        /\ c.local_dt = Datetime(2023, 11, 5, 2) - 1

----------------------------------------------------------------------------
(* Properties of the overlay geometry *)

GeometryCalls == {c \in Calls : c.op = "overlay_geometry"}

\* C27: the overlay is scaled to a third of the background's width, its
\* height in the same proportion truncated to a whole number, and the corner
\* radius is a tenth of the smaller scaled side.
C27_OverlayGeometry ==
    \A c \in GeometryCalls :
        /\ c.secondary_width = c.primary.w \div 3
        /\ c.secondary_height = (c.secondary.h * c.secondary_width) \div c.secondary.w
        /\ c.corner_radius = Min(c.secondary_width, c.secondary_height) \div 10

----------------------------------------------------------------------------
(* Properties of the names in the output folder *)

\* C22: of two records the workers of one pool have written files for, the
\* one captured earlier has the base name that sorts first or the same base
\* name, in whatever order the workers ran.  A base name is the text
\* YYYY-MM-DD_HH-MM-SS, which sorts as the second it names.
C22_NamesSortByCaptureTime ==
    pc \in {"memories_pool", "posts_pool"} =>
        \A w1 \in writers, w2 \in writers :
            StampOf(PoolCategory, w1[2]).t < StampOf(PoolCategory, w2[2]).t =>
                w1[1].stem <= w2[1].stem

----------------------------------------------------------------------------
(* Properties of the pairing resolver's later rules *)

HasFront(name) == \E k \in DOMAIN name : name[k] \in {"front", "Front"}
HasBack(name) == \E k \in DOMAIN name : name[k] \in {"back", "Back"}

DetectedPair == DetectReturned /\ Len(conv.original_files) = 2
OneSecondary ==
    \E k \in 1..2 : HasSecondary(conv.original_files[k]) /\ ~HasSecondary(conv.original_files[3 - k])
FrontAndBack ==
    \E k \in 1..2 : HasFront(conv.original_files[k]) /\ HasBack(conv.original_files[3 - k])

\* C23: when the "secondary" rule does not apply and one file name contains
\* "front" and the other "back", the export of the "back" file is the
\* background and the export of the "front" file the overlay, in either
\* position.
C23_BackIsBackground ==
    DetectedPair /\ ~OneSecondary =>
        \A k \in 1..2 :
           HasBack(conv.original_files[k]) /\ HasFront(conv.original_files[3 - k]) =>
               conv.ret = Pair(conv.exported_files[k], conv.exported_files[3 - k])

\* 1-Front.webp before 1-back.webp: the second file is the background
C23_Witness ==
    /\ DetectReturned
    /\ conv.original_files = <<(<<"1", "Front">>), (<<"1", "back">>)>>
    /\ conv.ret = Pair(ExportedFiles[2], ExportedFiles[1])

\* both images can be opened and their ratios differ by more than 1/5
Readable == conv.dims[1] # NoDims /\ conv.dims[2] # NoDims
RatioGap == Abs(conv.dims[1].w * conv.dims[2].h - conv.dims[2].w * conv.dims[1].h)
FarApart == Readable /\ 5 * RatioGap > conv.dims[1].h * conv.dims[2].h
\* |w/h - 1| of image k, both sides multiplied by the two heights
OffSquare(k) == Abs(conv.dims[k].w - conv.dims[k].h) * conv.dims[3 - k].h

\* C24: when neither file name rule applies and the two width/height ratios
\* differ by more than 0.2, the image whose ratio is nearer to 1 is the
\* overlay and the other the background, in either position.
C24_SquarerIsOverlay ==
    DetectedPair /\ ~OneSecondary /\ ~FrontAndBack /\ FarApart =>
        \A k \in 1..2 :
           OffSquare(k) < OffSquare(3 - k) =>
               conv.ret = Pair(conv.exported_files[3 - k], conv.exported_files[k])

\* a square image before a 3:4 image: the square one is the overlay
C24_Witness ==
    /\ DetectReturned
    /\ conv.original_files = <<(<<"1", "x">>), (<<"1", "y">>)>>
    /\ conv.dims = <<Dims(1, 1), Dims(3, 4)>>
    /\ conv.ret = Pair(ExportedFiles[2], ExportedFiles[1])

\* the order of the words as strings: digits, then capitals, then small letters
RawRank(word) ==
    CASE word = "1" -> 1 [] word = "2" -> 2 [] word = "Back" -> 3 [] word = "Front" -> 4
      [] word = "SECONDARY" -> 5 [] word = "Secondary" -> 6 [] word = "X" -> 7
      [] word = "back" -> 8 [] word = "front" -> 9 [] word = "secondary" -> 10
      [] word = "x" -> 11 [] word = "y" -> 12 [] OTHER -> 13

\* name1 sorts before name2 as file names: "-" sorts before the "." that
\* ends the shorter name
Earlier(name1, name2) ==
    LET RECURSIVE less(_)
        less(k) ==
            IF k > Len(name1) THEN FALSE
            ELSE IF k > Len(name2) THEN TRUE
            ELSE IF name1[k] = name2[k] THEN less(k + 1)
            ELSE RawRank(name1[k]) < RawRank(name2[k])
    IN less(1)

\* C25: when no earlier rule applies, also when an image cannot be opened,
\* the export of the file whose name sorts first is the background and the
\* other the overlay, so that both orders of the two files give one result.
C25_EarlierNameIsBackground ==
    DetectedPair /\ ~OneSecondary /\ ~FrontAndBack /\ ~FarApart =>
        \A k \in 1..2 :
           Earlier(conv.original_files[k], conv.original_files[3 - k]) =>
               conv.ret = Pair(conv.exported_files[k], conv.exported_files[3 - k])

----------------------------------------------------------------------------
(* Properties of the two choosers *)

ChooserReturned == conv.op \in {"web_ui", "interactive"} /\ conv.pc = "returned"
Image1 == conv.exported_files[1]
Image2 == conv.exported_files[2]

\* what a chooser has returned, by the answer it took
ChoiceIsHonoured ==
    ChooserReturned =>
        /\ conv.ret \in {Skip, Pair(Image1, Image2), Pair(Image2, Image1)}
        /\ conv.ret # Skip => conv.ret.primary # conv.ret.overlay
        /\ (conv.typed = "1" \/ conv.selection = "1") => conv.ret = Pair(Image2, Image1)
        /\ (conv.typed = "2" \/ conv.selection = "2") => conv.ret = Pair(Image1, Image2)
        /\ (conv.typed \in {"3", "eof", "interrupt"} \/ conv.selection = "skip") => conv.ret = Skip

\* any other input at the prompt leaves the prompt waiting
OtherInputKeepsWaiting ==
    (conv.pc = "prompt" /\ conv'.typed \notin {"1", "2", "3", "eof", "interrupt"}) =>
        (conv'.pc = "prompt" /\ conv'.ret = conv.ret)

\* C26: given two exported images, each chooser returns the skip signal or
\* the two images as background and overlay: image 1 chosen as selfie gives
\* (image 2, image 1), image 2 gives (image 1, image 2); skip, end of input
\* and interrupt give the skip signal; any other console input leaves the
\* prompt waiting.
C26_ChoosersReturnChoice == []ChoiceIsHonoured /\ [][OtherInputKeepsWaiting]_vars

\* "1" typed at the prompt, and "2" read from the browser's answer file
C26_Witness ==
    /\ ChooserReturned
    /\ \/ conv.op = "interactive" /\ conv.typed = "1" /\ conv.ret = Pair(Image2, Image1)
       \/ conv.op = "web_ui" /\ conv.selection = "2" /\ conv.ret = Pair(Image1, Image2)

----------------------------------------------------------------------------
(* Properties of the source search and of the files one export leaves *)

\* the candidates in the order they are tried, the literal path first
SearchOrder == <<"literal", "rootrec", "post", "bereal", "realmoji">>
PositionOf(place) == CHOOSE k \in DOMAIN SearchOrder : SearchOrder[k] = place

\* the files a call has written that hold the image of its source
CopiesOf(c) == {p \in Written(c) : c.post[p].img.id = c.src.id}

\* C28: export_img copies from the literal path when it is a file, otherwise
\* from the first candidate of the fixed list that is a file; no candidate
\* is used while one before it exists.
C28_FirstCandidateIsCopied ==
    \A c \in ExportCalls : \A p \in CopiesOf(c) :
        /\ c.post[p].img.place \in c.src.places
        /\ \A earlier \in c.src.places :
              PositionOf(earlier) >= PositionOf(c.post[p].img.place)

\* a file found under Photos/bereal and Photos/realmoji only is copied from
\* Photos/bereal
C28_Witness ==
    \E c \in ExportCalls :
        /\ c.src.places = {"bereal", "realmoji"}
        /\ \E p \in CopiesOf(c) : c.post[p].img.place = "bereal"

\* the files of the call's image under the destination's name, any extension
OutputsOf(c, tree) ==
    {p \in DOMAIN tree : /\ p.folder = c.dst.folder /\ p.stem = c.dst.stem
                          /\ p.view = c.dst.view /\ tree[p].img.id = c.src.id}

\* C29: when export_img has copied its source to a destination that held no
\* file of that image, exactly one file of the image is there when the call
\* returns, the copy or its transcoded replacement, for every outcome of the
\* chain and either extension of the destination.
C29_ExactlyOneOutput ==
    \A c \in ExportCalls :
        (SourceFound(c.src) /\ OutputsOf(c, c.pre) = {}) =>
            Cardinality(OutputsOf(c, c.post)) = 1

----------------------------------------------------------------------------
(* Properties of the successive pairs of one browser run *)

\* the polling loop of the current pair took its selection from a result file
DecidedByFile == conv.op = "web_ui" /\ conv.decided_by # 0

\* C30: an answer given in the browser decides the pair whose page it was
\* given on and no later pair: the result file the polling loop of a pair
\* reads was written from that pair's page.
C30_AnswerDecidesOwnPair == DecidedByFile => conv.decided_by = calls

====
